---------------------------- MODULE Spec2Model ----------------------------
(***************************************************************************)
(* Model of the plain-text-to-PDF layout engine of the CLM frontend        *)
(* (app/lib/downloads: sanitizeForWinAnsi, wrapText, downloadTextAsPdf).   *)
(*                                                                         *)
(* A string is a sequence of UTF-16 code units (naturals), as in the       *)
(* JavaScript source.  The font is the measuring capability handed to      *)
(* wrapText: a function from glyph to advance width, widthOfTextAtSize     *)
(* being the sum over the text.                                            *)
(***************************************************************************)
EXTENDS Integers, Sequences, FiniteSets, TLC

VARIABLES
    pc,        \* position in the code: which statement runs next
    input,     \* params.text / the argument of sanitizeForWinAnsi
    text,      \* safeText: the sanitizer's result, wrapText's params.text
    again,     \* the sanitizer applied to its own result
    maxWidth,  \* wrapText's params.maxWidth
    font,      \* wrapText's params.font: glyph -> advance width
    lines,     \* wrapText's lines array
    paragraphs,\* wrapText's paragraphs
    words,     \* wrapText's words, of the paragraph at hand
    pi,        \* index of the paragraph the outer for loop is at
    wi,        \* index of the word the inner for loop is at
    current,   \* wrapText's current
    token,     \* wrapText's token
    filename,  \* params.filename
    title,     \* params.title
    pages,     \* number of pages added to the document
    y,         \* the vertical cursor
    li,        \* index of the line the drawing loop is at
    draws,     \* every drawText / drawLine call issued, in order
    outName,   \* the download name
    earlier    \* what an earlier invocation on the same inputs produced

vars == <<pc, input, text, again, maxWidth, font, lines, paragraphs, words,
          pi, wi, current, token, filename, title, pages, y, li, draws,
          outName, earlier>>

sanVars == <<input, text, again>>
wrapVars == <<maxWidth, font, lines, paragraphs, words, pi, wi, current,
              token>>
pageVars == <<filename, title, pages, y, li, draws, outName, earlier>>

----------------------------------------------------------------------------
(* Bounds of the model *)

MaxSanLen == 2

MaxTextLen == 3

MaxGlyphWidth == 3

MaxWidth == 5

MaxLines == 200

MaxTokenLen == 77

----------------------------------------------------------------------------
(* Code units *)

TAB == 9
LF == 10
CR == 13
SPACE == 32
NBSP == 160

\* null / undefined: a value no string equals
Undefined == <<-1>>

\* input || ''
OrEmpty(s) == IF s = Undefined \/ s = <<>> THEN <<>> ELSE s

RECURSIVE Flatten(_)
Flatten(ss) == IF ss = <<>> THEN <<>> ELSE Head(ss) \o Flatten(Tail(ss))

\* String.prototype.replace(/[pat]/g, rep) for a class of single code units
ReplaceAll(s, pat, rep) ==
    Flatten([i \in 1..Len(s) |-> IF s[i] \in pat THEN rep ELSE <<s[i]>>])

----------------------------------------------------------------------------
(* sanitizeForWinAnsi *)

BallotBox == {9744}
BallotBoxChecked == {9745}
WhiteHeavyCheck == {9989}
CheckMarksOnlyLight == {10003}
CheckMarks == {10003, 10004}
Bullets == {8226, 9679, 9632}
Dashes == {8208, 8209, 8210, 8211, 8212, 8722}
SingleQuotes == {8216, 8217, 8219, 8242}
DoubleQuotes == {8220, 8221, 8223, 8243}

\* the chain of .replace calls
Substitute(s) ==
    LET s1 == ReplaceAll(s, BallotBox, <<91, 32, 93>>)
        s2 == ReplaceAll(s1, BallotBoxChecked, <<91, 120, 93>>)
        s3 == ReplaceAll(s2, WhiteHeavyCheck, <<91, 120, 93>>)
        s4 == ReplaceAll(s3, CheckMarks, <<120>>)
        s5 == ReplaceAll(s4, Bullets, <<42>>)
        s6 == ReplaceAll(s5, Dashes, <<45>>)
        s7 == ReplaceAll(s6, SingleQuotes, <<39>>)
        s8 == ReplaceAll(s7, DoubleQuotes, <<34>>)
    IN  ReplaceAll(s8, {NBSP}, <<SPACE>>)

IsHighSurrogate(u) == u >= 55296 /\ u <= 56319
IsLowSurrogate(u) == u >= 56320 /\ u <= 57343

\* the string iterator of for (const ch of s): the number of code units of
\* the first character (a surrogate pair is one character)
FirstCharLen(s) ==
    IF Len(s) >= 2 /\ IsHighSurrogate(s[1]) /\ IsLowSurrogate(s[2]) THEN 2 ELSE 1

\* ch.codePointAt(0)
CodePointAt0(ch) ==
    IF Len(ch) = 2
    THEN 65536 + (ch[1] - 55296) * 1024 + (ch[2] - 56320)
    ELSE ch[1]

IsLineWhitespaceOnlyLF(ch) == ch = <<LF>>
IsLineWhitespace(ch) == ch = <<LF>> \/ ch = <<CR>> \/ ch = <<TAB>>

IsPrintableAsciiThrough7F(code) == code >= 32 /\ code <= 127
IsPrintableAscii(code) == code >= 32 /\ code <= 126

FillerNbsp == <<NBSP>>
Filler == <<SPACE>>

\* the body of the for-of loop, for one character
KeepOrFill(ch) ==
    IF IsLineWhitespace(ch) THEN ch
    ELSE IF IsPrintableAscii(CodePointAt0(ch)) THEN ch
    ELSE Filler

RECURSIVE FinalPass(_)
FinalPass(s) ==
    IF s = <<>> THEN <<>>
    ELSE LET n == FirstCharLen(s)
         IN  KeepOrFill(SubSeq(s, 1, n)) \o FinalPass(SubSeq(s, n + 1, Len(s)))

sanitizeForWinAnsi(s) == FinalPass(Substitute(OrEmpty(s)))

----------------------------------------------------------------------------
(* wrapText *)

\* characters the regular expression class \s matches
JsWhitespace == {9, 10, 11, 12, 13, 32, 160, 5760, 8232, 8233, 8239, 8287, 12288, 65279}
                    \cup (8192..8202)

\* the positions of s, in order
Indices(s) == [i \in 1..Len(s) |-> i]

\* text.replace(/\r\n/g, '\n'): every '\r' that a '\n' follows goes
NormalizeCRLF(s) ==
    LET kept == SelectSeq(Indices(s),
                          LAMBDA i : ~(s[i] = CR /\ i < Len(s) /\ s[i + 1] = LF))
    IN  [k \in 1..Len(kept) |-> s[kept[k]]]

\* String.prototype.split('\n'): the pieces between the separators, acc
\* being what the first piece starts with
SplitLF(s, acc) ==
    LET seps == SelectSeq(Indices(s), LAMBDA i : s[i] = LF)
        piece(k) == SubSeq(s, IF k = 1 THEN 1 ELSE seps[k - 1] + 1,
                           IF k = Len(seps) + 1 THEN Len(s) ELSE seps[k] - 1)
    IN  [k \in 1..(Len(seps) + 1) |->
            IF k = 1 THEN acc \o piece(1) ELSE piece(k)]

\* (text || '').replace(/\r\n/g, '\n').split('\n')
Paragraphs(s) == SplitLF(NormalizeCRLF(OrEmpty(s)), <<>>)

\* the rest of s after its leading run of whitespace
RECURSIVE SkipWhitespace(_)
SkipWhitespace(s) ==
    IF s # <<>> /\ s[1] \in JsWhitespace THEN SkipWhitespace(Tail(s)) ELSE s

\* para.split(/\s+/g): every maximal whitespace run is one separator, and a
\* separator at either end leaves an empty string there; acc is what the
\* first piece starts with
SplitWhitespace(s, acc) ==
    LET starts == SelectSeq(Indices(s),
                     LAMBDA i : s[i] \in JsWhitespace
                                /\ (i = 1 \/ s[i - 1] \notin JsWhitespace))
        ends == SelectSeq(Indices(s),
                     LAMBDA i : s[i] \in JsWhitespace
                                /\ (i = Len(s) \/ s[i + 1] \notin JsWhitespace))
        piece(k) == SubSeq(s, IF k = 1 THEN 1 ELSE ends[k - 1] + 1,
                           IF k = Len(starts) + 1 THEN Len(s) ELSE starts[k] - 1)
    IN  [k \in 1..(Len(starts) + 1) |->
            IF k = 1 THEN acc \o piece(1) ELSE piece(k)]

Words(para) == SplitWhitespace(para, <<>>)

\* font.widthOfTextAtSize(s, fontSize): the sum of the glyphs' advance
\* widths, added up half by half
RECURSIVE widthOfTextAtSize(_, _)
widthOfTextAtSize(f, s) ==
    IF s = <<>> THEN 0
    ELSE IF Len(s) = 1 THEN f[s[1]]
    ELSE widthOfTextAtSize(f, SubSeq(s, 1, Len(s) \div 2))
         + widthOfTextAtSize(f, SubSeq(s, Len(s) \div 2 + 1, Len(s)))

Max(a, b) == IF a >= b THEN a ELSE b
Min(a, b) == IF a <= b THEN a ELSE b

\* current ? `${current} ${w}` : w
JoinWord(cur, w) == IF cur # <<>> THEN cur \o <<SPACE>> \o w ELSE w

\* if (width <= maxWidth), width being the measure of next
FitsStrictly(f, s, mw) == widthOfTextAtSize(f, s) < mw
Fits(f, s, mw) == widthOfTextAtSize(f, s) <= mw

\* if (current) lines.push(current), before a word that does not fit
CommitBeforeBreakDropped(ls, cur) == ls
CommitBeforeBreak(ls, cur) == IF cur # <<>> THEN Append(ls, cur) ELSE ls

\* if (current) lines.push(current), at the end of a paragraph
CommitParagraphEndDropped(ls, cur) == ls
CommitParagraphEndAlways(ls, cur) == Append(ls, cur)
CommitParagraphEnd(ls, cur) == IF cur # <<>> THEN Append(ls, cur) ELSE ls

\* the condition of the hard-break while loop
HardBreakContinuesNoLengthGuard(f, tok, mw) == widthOfTextAtSize(f, tok) > mw
HardBreakContinues(f, tok, mw) == widthOfTextAtSize(f, tok) > mw /\ Len(tok) > 1

\* Double-precision arithmetic on positive numbers.  A number is a record
\* [bits, exp]: bits is its significand, most significant bit first and
\* leading bit 1, and its value is the integer bits spells times 2^exp.
\* The operations are functions, so that each is applied to a value.
SignificandBits == 53

Bits == Seq({0, 1})

Doubles == [bits : Bits, exp : Int]

\* the integer a sequence of bits spells
BitsToNat[bits \in Bits] ==
    IF bits = <<>> THEN 0
    ELSE 2 * BitsToNat[SubSeq(bits, 1, Len(bits) - 1)] + bits[Len(bits)]

\* the bits of a natural number, none for 0
NatToBits[n \in Nat] ==
    IF n = 0 THEN <<>> ELSE Append(NatToBits[n \div 2], n % 2)

\* bits plus one; an all-ones sequence grows by one bit
PlusOne[bits \in Bits] ==
    LET zeros == {k \in 1..Len(bits) : bits[k] = 0}
    IN  IF zeros = {} THEN <<1>> \o [k \in 1..Len(bits) |-> 0]
        ELSE LET last == CHOOSE k \in zeros : \A j \in zeros : j <= k
             IN  [k \in 1..Len(bits) |->
                     IF k < last THEN bits[k] ELSE IF k = last THEN 1 ELSE 0]

\* round to nearest, ties to even: the number [bits, exp] as a double
RoundToDouble[bits \in Bits, exp \in Int] ==
    IF Len(bits) <= SignificandBits
    THEN [bits |-> bits \o [k \in 1..(SignificandBits - Len(bits)) |-> 0],
          exp |-> exp - (SignificandBits - Len(bits))]
    ELSE LET kept == SubSeq(bits, 1, SignificandBits)
             dropped == SubSeq(bits, SignificandBits + 1, Len(bits))
             more == \E k \in 2..Len(dropped) : dropped[k] = 1
             up == dropped[1] = 1 /\ (more \/ kept[SignificandBits] = 1)
             raised == IF up THEN PlusOne[kept] ELSE kept
             by == exp + Len(dropped)
         IN  IF Len(raised) > SignificandBits
             THEN [bits |-> SubSeq(raised, 1, SignificandBits), exp |-> by + 1]
             ELSE [bits |-> raised, exp |-> by]

\* 2^i modulo m, by squaring
Pow2Mod[i \in Nat, m \in Nat] ==
    IF i = 0 THEN 1 % m
    ELSE IF i % 2 = 0 THEN (Pow2Mod[i \div 2, m] * Pow2Mod[i \div 2, m]) % m
    ELSE (2 * Pow2Mod[i \div 2, m] * Pow2Mod[i \div 2, m]) % m

\* what is left of rest / den (rest < den) once i bits of the quotient
\* have been taken: rest * 2^i modulo den
LeftAfter(rest, den, i) == (rest * Pow2Mod[i, den]) % den

\* the first n bits of the quotient rest / den (rest < den) after the
\* binary point, and a last bit that says whether anything is left over
LongDivision[rest \in Nat, den \in Nat, n \in Nat] ==
    [i \in 1..(n + 1) |->
        IF i <= n
        THEN IF 2 * LeftAfter(rest, den, i - 1) >= den THEN 1 ELSE 0
        ELSE IF LeftAfter(rest, den, n) > 0 THEN 1 ELSE 0]

\* a / b for positive integers, as a double: the quotient is scaled into
\* 1 <= num / den < 2, divided out to one bit more than a significand
\* holds, and rounded
DivideScaled[num \in Nat, den \in Nat, exp \in Int] ==
    IF num < den THEN DivideScaled[2 * num, den, exp - 1]
    ELSE IF num >= 2 * den THEN DivideScaled[num, 2 * den, exp + 1]
    ELSE RoundToDouble[<<1>> \o LongDivision[num - den, den, SignificandBits],
                       exp - SignificandBits - 1]

DoubleDivide(a, b) == DivideScaled[a, b, 0]

\* a sequence of bits as limbs of LimbBits bits, the lowest first
LimbBits == 12

LimbBase == 2 ^ LimbBits

LimbCount(bits) == (Len(bits) + LimbBits - 1) \div LimbBits

ToLimbs[bits \in Bits] ==
    [k \in 1..LimbCount(bits) |->
        BitsToNat[SubSeq(bits, Max(1, Len(bits) - LimbBits * k + 1),
                         Len(bits) - LimbBits * (k - 1))]]

\* the bits of a limb below the highest: LimbBits of them
LimbToBits[v \in Nat] ==
    [k \in 1..(LimbBits - Len(NatToBits[v])) |-> 0] \o NatToBits[v]

\* the highest limb may be of any size
FromLimbs[limbs \in Seq(Nat)] ==
    NatToBits[limbs[Len(limbs)]]
        \o Flatten([k \in 1..(Len(limbs) - 1) |->
                       LimbToBits[limbs[Len(limbs) - k]]])

\* limbs times n, carry being what the lower limbs have brought
TimesLimbs[limbs \in Seq(Nat), n \in Nat, carry \in Nat] ==
    IF Len(limbs) = 1 THEN <<limbs[1] * n + carry>>
    ELSE <<(limbs[1] * n + carry) % LimbBase>>
             \o TimesLimbs[Tail(limbs), n, (limbs[1] * n + carry) \div LimbBase]

\* bits times the positive integer n
TimesBits(bits, n) == FromLimbs[TimesLimbs[ToLimbs[bits], n, 0]]

\* x * n for a double x and a positive integer n, as a double
DoubleTimes[x \in Doubles, n \in Nat] ==
    RoundToDouble[TimesBits(x.bits, n), x.exp]

\* Math.floor(x) and Math.ceil(x) for a double x below 2^31
DoubleFloor[x \in Doubles] ==
    IF Len(x.bits) + x.exp <= 0 THEN 0
    ELSE BitsToNat[SubSeq(x.bits, 1, Len(x.bits) + x.exp)]

DoubleCeil[x \in Doubles] ==
    IF \E k \in 1..Len(x.bits) : k > Len(x.bits) + x.exp /\ x.bits[k] = 1
    THEN DoubleFloor[x] + 1
    ELSE DoubleFloor[x]

\* the same estimate in exact arithmetic
HardBreakEstimateExact(mw, width, len) ==
    IF width > 0 THEN (mw * len) \div width
    ELSE IF width < 0 THEN ((0 - mw) * len) \div (0 - width)
    ELSE 0

\* Math.floor((maxWidth / width) * token.length) for the width of a token
\* in the loop, where width > maxWidth, in double precision.  A width of 0
\* is met in the loop only with a negative maxWidth: the quotient is then
\* -Infinity, for which any number below 1 stands, the clamp that follows
\* giving 1 for all of them.
HardBreakEstimate(mw, width, len) ==
    IF mw = 0 \/ width = 0 THEN 0
    ELSE IF mw > 0 /\ width > 0
         THEN DoubleFloor[DoubleTimes[DoubleDivide(mw, width), len]]
    ELSE IF mw < 0 /\ width < 0
         THEN DoubleFloor[DoubleTimes[DoubleDivide(0 - mw, 0 - width), len]]
    ELSE IF mw < 0
         THEN 0 - DoubleCeil[DoubleTimes[DoubleDivide(0 - mw, width), len]]
    ELSE 0 - DoubleCeil[DoubleTimes[DoubleDivide(mw, 0 - width), len]]

\* the estimate clamped to 1..length-1:
\* Math.min(token.length - 1, Math.max(1, estimate))
HardBreakCutAllButOne(f, tok, mw) == Len(tok) - 1
HardBreakCutFromZero(f, tok, mw) ==
    Min(Len(tok) - 1,
        Max(0, HardBreakEstimate(mw, widthOfTextAtSize(f, tok), Len(tok))))
HardBreakCut(f, tok, mw) ==
    Min(Len(tok) - 1,
        Max(1, HardBreakEstimate(mw, widthOfTextAtSize(f, tok), Len(tok))))

\* lines.push('') for an empty paragraph
PushEmptyLineDropped(ls) == ls
PushEmptyLine(ls) == Append(ls, <<>>)

\* for (const para of paragraphs): one paragraph taken, or the return
NextParagraph ==
    /\ pc = "para"
    /\ IF pi > Len(paragraphs)
       THEN /\ pc' = "wrapped"
            /\ UNCHANGED <<lines, words, pi, wi, current>>
       ELSE IF paragraphs[pi] = <<>>
       THEN /\ lines' = PushEmptyLine(lines)
            /\ pi' = pi + 1
            /\ UNCHANGED <<pc, words, wi, current>>
       ELSE /\ words' = Words(paragraphs[pi])
            /\ pc' = "word"
            /\ wi' = 1
            /\ current' = <<>>
            /\ UNCHANGED <<lines, pi>>
    /\ UNCHANGED <<maxWidth, font, paragraphs, token>>
    /\ UNCHANGED sanVars
    /\ UNCHANGED pageVars

\* for (const w of words): one word taken, or the end of the paragraph
NextWord ==
    /\ pc = "word"
    /\ IF wi > Len(words)
       THEN /\ lines' = CommitParagraphEnd(lines, current)
            /\ pi' = pi + 1
            /\ pc' = "para"
            /\ UNCHANGED <<wi, current, token>>
       ELSE LET w == words[wi]
                next == JoinWord(current, w)
            IN  IF Fits(font, next, maxWidth)
                THEN /\ current' = next
                     /\ wi' = wi + 1
                     /\ UNCHANGED <<pc, lines, pi, token>>
                ELSE /\ lines' = CommitBeforeBreak(lines, current)
                     /\ token' = w
                     /\ pc' = "hard"
                     /\ UNCHANGED <<wi, pi, current>>
    /\ UNCHANGED <<maxWidth, font, paragraphs, words>>
    /\ UNCHANGED sanVars
    /\ UNCHANGED pageVars

\* while (width(token) > maxWidth && token.length > 1): one iteration, or
\* the exit to current = token
HardBreak ==
    /\ pc = "hard"
    /\ IF HardBreakContinues(font, token, maxWidth)
       THEN LET cut == HardBreakCut(font, token, maxWidth)
            IN  /\ lines' = Append(lines, SubSeq(token, 1, cut))
                /\ token' = SubSeq(token, cut + 1, Len(token))
                /\ UNCHANGED <<pc, wi, current>>
       ELSE /\ current' = token
            /\ wi' = wi + 1
            /\ pc' = "word"
            /\ UNCHANGED <<lines, token>>
    /\ UNCHANGED <<maxWidth, font, paragraphs, words, pi>>
    /\ UNCHANGED sanVars
    /\ UNCHANGED pageVars

\* the text alphabet of the wrapper's runs: two letters, and the whitespace
\* a sanitized text can hold
\* 'i' and 'W'
Letters == <<105, 87>>
LetterI == Letters[1]
LetterW == Letters[2]
WrapAlphabet == {LetterI, LetterW, SPACE, TAB, CR, LF}

StringsUpTo(alphabet, n) == UNION {[1..k -> alphabet] : k \in 0..n}

\* fonts: advance widths of the two letters and of the space.  The texts
\* range over both letters alike, so the first is taken as the narrower.
WrapFonts == {f \in [{LetterI, LetterW, SPACE} -> 1..MaxGlyphWidth] :
                 f[LetterI] <= f[LetterW]}

InitWrap ==
    /\ pc = "para"
    /\ input = <<>>
    /\ again = <<>>
    /\ text \in StringsUpTo(WrapAlphabet, MaxTextLen)
    /\ maxWidth \in 1..MaxWidth
    /\ font \in WrapFonts
    /\ lines = <<>>
    /\ paragraphs = Paragraphs(text)
    /\ words = <<>>
    /\ pi = 1
    /\ wi = 1
    /\ current = <<>>
    /\ token = <<>>
    /\ filename = <<>>
    /\ title = <<>>
    /\ pages = 0
    /\ y = 0
    /\ li = 1
    /\ draws = <<>>
    /\ earlier = <<>>
    /\ outName = <<>>

NextWrap == NextParagraph \/ NextWord \/ HardBreak

SpecWrap == InitWrap /\ [][NextWrap]_vars

\* wrapText with whatever numbers it may be handed: a maxWidth that is
\* negative, zero or positive, and glyph widths that are negative, zero or
\* positive (a space has a positive width)
AnyWidthAlphabet == {LetterI, LetterW, SPACE, LF}

AnyWidthFonts ==
    {f \in [{LetterI, LetterW, SPACE} -> (0 - 1)..MaxGlyphWidth] :
        f[LetterI] <= f[LetterW] /\ f[SPACE] >= 1}

InitWrapAnyWidth ==
    /\ pc = "para"
    /\ input = <<>>
    /\ again = <<>>
    /\ text \in StringsUpTo(AnyWidthAlphabet, MaxTextLen)
    /\ maxWidth \in (0 - MaxWidth)..MaxWidth
    /\ font \in AnyWidthFonts
    /\ lines = <<>>
    /\ paragraphs = Paragraphs(text)
    /\ words = <<>>
    /\ pi = 1
    /\ wi = 1
    /\ current = <<>>
    /\ token = <<>>
    /\ filename = <<>>
    /\ title = <<>>
    /\ pages = 0
    /\ y = 0
    /\ li = 1
    /\ draws = <<>>
    /\ earlier = <<>>
    /\ outName = <<>>

SpecWrapAnyWidth == InitWrapAnyWidth /\ [][NextWrap]_vars

----------------------------------------------------------------------------
(* sanitizeForWinAnsi on its own *)

\* the code units the sanitizer's runs draw from: every code point a rule
\* names, ASCII on both sides of each boundary, the three kept controls,
\* and code points no rule names (a surrogate pair among them)
SanAlphabet ==
    BallotBox \cup BallotBoxChecked \cup WhiteHeavyCheck \cup CheckMarks
    \cup Bullets \cup Dashes \cup SingleQuotes \cup DoubleQuotes
    \cup {NBSP, TAB, LF, CR, SPACE}
    \cup {34, 39, 42, 45, 65, 91, 93, 120, 126}
    \cup {0, 31, 127, 128, 233, 8213, 8218, 20013, 55357, 56832, 65279}

\* "Price: $5\u2014$10 \u2714"
PriceExample ==
    <<80, 114, 105, 99, 101, 58, 32, 36, 53, 8212, 36, 49, 48, 32, 10004>>

InitSanitize ==
    /\ pc = "sanitize"
    /\ input \in {Undefined, PriceExample} \cup StringsUpTo(SanAlphabet, MaxSanLen)
    /\ text = <<>>
    /\ again = <<>>
    /\ maxWidth = 0
    /\ font = <<>>
    /\ lines = <<>>
    /\ paragraphs = <<>>
    /\ words = <<>>
    /\ pi = 1
    /\ wi = 1
    /\ current = <<>>
    /\ token = <<>>
    /\ filename = <<>>
    /\ title = <<>>
    /\ pages = 0
    /\ y = 0
    /\ li = 1
    /\ draws = <<>>
    /\ earlier = <<>>
    /\ outName = <<>>

\* a call sanitizeForWinAnsi(input)
SanitizeCall ==
    /\ pc = "sanitize"
    /\ text' = sanitizeForWinAnsi(input)
    /\ pc' = "sanitized"
    /\ UNCHANGED <<input, again>>
    /\ UNCHANGED wrapVars
    /\ UNCHANGED pageVars

\* a call of the sanitizer on its own result
SanitizeAgain ==
    /\ pc = "sanitized"
    /\ again' = sanitizeForWinAnsi(text)
    /\ pc' = "resanitized"
    /\ UNCHANGED <<input, text>>
    /\ UNCHANGED wrapVars
    /\ UNCHANGED pageVars

NextSanitize == SanitizeCall \/ SanitizeAgain

SpecSanitize == InitSanitize /\ [][NextSanitize]_vars

----------------------------------------------------------------------------
(* downloadTextAsPdf *)

pageWidth == 612
pageHeight == 792
marginX == 54
marginTop == 64
marginBottom == 54
fontSize == 11
leading == 16
titleSize == 14
headerOffset == 26
headerGap == 18

maxTextWidth == pageWidth - marginX * 2

\* 'template'
DefaultFilename == <<116, 101, 109, 112, 108, 97, 116, 101>>

\* '.pdf'
PdfExtension == <<46, 112, 100, 102>>

\* a || b on strings: b when a is undefined or empty
OrElse(a, b) == IF a = Undefined \/ a = <<>> THEN b ELSE a

\* s matches /\.txt$/i
EndsWithDotTxtLowerCase(s) ==
    /\ Len(s) >= 4
    /\ SubSeq(s, Len(s) - 3, Len(s)) = <<46, 116, 120, 116>>
EndsWithDotTxt(s) ==
    /\ Len(s) >= 4
    /\ s[Len(s) - 3] = 46
    /\ s[Len(s) - 2] \in {116, 84}
    /\ s[Len(s) - 1] \in {120, 88}
    /\ s[Len(s)] \in {116, 84}

\* (params.filename || 'template').replace(/\.txt$/i, '')
FilenameBase(fn) ==
    LET name == OrElse(fn, DefaultFilename)
    IN  IF EndsWithDotTxt(name) THEN SubSeq(name, 1, Len(name) - 4) ELSE name

\* `${filenameBase}.pdf`
OutName(fn) == FilenameBase(fn) \o PdfExtension

RECURSIVE DropTrailingWhitespace(_)
DropTrailingWhitespace(s) ==
    IF s # <<>> /\ s[Len(s)] \in JsWhitespace
    THEN DropTrailingWhitespace(SubSeq(s, 1, Len(s) - 1))
    ELSE s

\* String.prototype.trim
Trim(s) == DropTrailingWhitespace(SkipWhitespace(s))

\* String.prototype.toUpperCase, on ASCII and Latin-1 letters
UpperUnitIdentity(u) == u
UpperUnit(u) ==
    IF (u >= 97 /\ u <= 122) \/ (u >= 224 /\ u <= 254 /\ u # 247) THEN u - 32 ELSE u

ToUpperCase(s) == [i \in 1..Len(s) |-> UpperUnit(s[i])]

\* (params.title || filenameBase).trim()
HeaderTitleNoFallback(t, fn) == Trim(OrEmpty(t))
HeaderTitle(t, fn) == Trim(OrElse(t, FilenameBase(fn)))

Draw(kind, page, x, yy, x2, size, str) ==
    [kind |-> kind, page |-> page, x |-> x, y |-> yy, x2 |-> x2,
     size |-> size, str |-> str]

\* if (y <= marginBottom)
NeedsNewPageLookahead(yy) == yy - leading <= marginBottom
NeedsNewPageBelowZero(yy) == yy <= 0
NeedsNewPageNever(yy) == FALSE
NeedsNewPage(yy) == yy <= marginBottom

\* pdfDoc.addPage([pageWidth, pageHeight]): the document has one more page
AddPageTwice(p) == p + 2
AddPage(p) == p + 1

\* the page a body line is drawn on: page = pdfDoc.addPage(...) when the
\* cursor asked for a new page, the page at hand otherwise
TargetPageStale(fresh, p) == p
TargetPageFirst(fresh, p) == 1
TargetPage(fresh, p) == IF fresh THEN AddPage(p) ELSE p

\* a second invocation whose wrapText would go on with the lines array of
\* the invocation before
StartKeepingLines ==
    /\ pc = "start"
    /\ outName' = OutName(filename)
    /\ maxWidth' = maxTextWidth
    /\ text' = sanitizeForWinAnsi(input)
    /\ paragraphs' = Paragraphs(text')
    /\ pi' = 1
    /\ pages' = 0
    /\ draws' = <<>>
    /\ pc' = "para"
    /\ UNCHANGED <<input, again, font, lines, words, wi, current, token>>
    /\ UNCHANGED <<filename, title, earlier, y, li>>

\* the statements up to the call of wrapText: the names, a new document
\* with its fonts, the measures, the sanitized text
Start ==
    /\ pc = "start"
    /\ outName' = OutName(filename)
    /\ maxWidth' = maxTextWidth
    /\ text' = sanitizeForWinAnsi(input)
    /\ lines' = <<>>
    /\ paragraphs' = Paragraphs(text')
    /\ pi' = 1
    /\ pages' = 0
    /\ draws' = <<>>
    /\ pc' = "para"
    /\ UNCHANGED <<input, again, font, words, wi, current, token>>
    /\ UNCHANGED <<filename, title, earlier, y, li>>

\* a paginator that would add its first page only when a line asks for one
AddFirstPageLazy ==
    /\ pc = "wrapped"
    /\ y' = marginBottom
    /\ pc' = "header"
    /\ UNCHANGED <<filename, title, earlier, pages, li, draws, outName>>
    /\ UNCHANGED sanVars
    /\ UNCHANGED wrapVars

\* let page = pdfDoc.addPage(...); let y = pageHeight - marginTop
AddFirstPage ==
    /\ pc = "wrapped"
    /\ pages' = AddPage(pages)
    /\ y' = pageHeight - marginTop
    /\ pc' = "header"
    /\ UNCHANGED <<filename, title, earlier, li, draws, outName>>
    /\ UNCHANGED sanVars
    /\ UNCHANGED wrapVars

\* the header block
DrawHeader ==
    /\ pc = "header"
    /\ LET t == HeaderTitle(title, filename)
       IN  IF t # <<>>
           THEN /\ draws' = draws \o
                      <<Draw("title", pages, marginX, y, marginX, titleSize,
                             ToUpperCase(t)),
                        Draw("rule", pages, marginX, y - headerOffset,
                             pageWidth - marginX, 1, <<>>)>>
                /\ y' = y - headerOffset - headerGap
           ELSE UNCHANGED <<draws, y>>
    /\ li' = 1
    /\ pc' = "body"
    /\ UNCHANGED <<filename, title, earlier, pages, outName>>
    /\ UNCHANGED sanVars
    /\ UNCHANGED wrapVars

\* for (const line of lines): one iteration
DrawBodyLine ==
    /\ pc = "body"
    /\ li <= Len(lines)
    /\ LET fresh == NeedsNewPage(y)
           page == TargetPage(fresh, pages)
           at == IF fresh THEN pageHeight - marginTop ELSE y
       IN  /\ pages' = IF fresh THEN AddPage(pages) ELSE pages
           /\ draws' = Append(draws, Draw("body", page, marginX, at, marginX,
                                          fontSize, lines[li]))
           /\ y' = at - leading
    /\ li' = li + 1
    /\ UNCHANGED <<pc, filename, title, earlier, outName>>
    /\ UNCHANGED sanVars
    /\ UNCHANGED wrapVars

\* the loop is over: the document is saved and offered as outName
Save ==
    /\ pc = "body"
    /\ li > Len(lines)
    /\ pc' = "done"
    /\ UNCHANGED sanVars
    /\ UNCHANGED wrapVars
    /\ UNCHANGED pageVars

\* the page count and the cursor when the loop is reached: the first page
\* and the header block
BeforeLoop(t, fn) ==
    [pages |-> AddPage(0),
     y |-> IF HeaderTitle(t, fn) # <<>>
           THEN pageHeight - marginTop - headerOffset - headerGap
           ELSE pageHeight - marginTop]

\* one turn of the loop over the lines, on the page count and the cursor
LoopBody(at) ==
    LET fresh == NeedsNewPage(at.y)
    IN  [pages |-> IF fresh THEN AddPage(at.pages) ELSE at.pages,
         y |-> (IF fresh THEN pageHeight - marginTop ELSE at.y) - leading]

\* k turns of the loop, taken as two halves to keep the evaluation shallow;
\* the first half is worked out (a document has pages) before the second
\* half starts from it
RECURSIVE Turns(_, _)
Turns(k, at) ==
    IF k = 0 THEN at
    ELSE IF k = 1 THEN LoopBody(at)
    ELSE LET half == Turns(k \div 2, at)
         IN  IF half.pages > 0 THEN Turns(k - (k \div 2), half) ELSE half

\* the page count and the cursor once the first n lines have been drawn
LayoutAfter(n, t, fn) == Turns(n, BeforeLoop(t, fn))

\* what an invocation hands over: the lines, the pages, the draws, the name
Produced ==
    [lines |-> lines, pages |-> pages, draws |-> draws, outName |-> outName]

\* the caller invokes downloadTextAsPdf once more with the same arguments;
\* whatever the first invocation left behind is still there
CallAgain ==
    /\ pc = "done"
    /\ earlier = <<>>
    /\ earlier' = <<Produced>>
    /\ pc' = "start"
    /\ UNCHANGED sanVars
    /\ UNCHANGED wrapVars
    /\ UNCHANGED <<filename, title, pages, y, li, draws, outName>>

\* the body draws, in order
BodyDraws == SelectSeq(draws, LAMBDA d : d.kind = "body")

----------------------------------------------------------------------------
(* the paginator on the lines wrapText returned *)

\* n one-letter lines, the result of wrapping n one-letter paragraphs
ShortLines(n) == [k \in 1..n |-> <<LetterI>>]

\* ".txt": a filename whose base is empty, so that no title falls back to it
DotTxt == <<46, 116, 120, 116>>

\* "a.txt"
ATxt == <<97, 46, 116, 120, 116>>

\* "a.TXT"
AUpperTxt == <<97, 46, 84, 88, 84>>

\* "a.md"
AMd == <<97, 46, 109, 100>>

\* "Hi"
Hi == <<72, 105>>

\* a title with a ballot box in it: "\u2610 a"
BoxTitle == <<9744, 32, 97>>

\* a font in which every glyph has the same advance width
Monospace(g) == [c \in 32..126 |-> g]

InitPaginate ==
    /\ pc = "wrapped"
    /\ input = <<>>
    /\ text = <<>>
    /\ again = <<>>
    /\ maxWidth = maxTextWidth
    /\ font = Monospace(6)
    /\ lines \in {ShortLines(n) : n \in 0..MaxLines}
    /\ paragraphs = <<>>
    /\ words = <<>>
    /\ pi = 1
    /\ wi = 1
    /\ current = <<>>
    /\ token = <<>>
    /\ filename \in {DotTxt, ATxt}
    /\ title \in {Undefined, Hi}
    /\ pages = 0
    /\ y = 0
    /\ li = 1
    /\ draws = <<>>
    /\ earlier = <<>>
    /\ outName = OutName(filename)

NextPaginate == AddFirstPage \/ DrawHeader \/ DrawBodyLine \/ Save

SpecPaginate == InitPaginate /\ [][NextPaginate]_vars

----------------------------------------------------------------------------
(* downloadTextAsPdf from its parameters *)

\* the ballot box, an accented letter, and sanitized characters
PipelineAlphabet == {LetterI, SPACE, LF, 9744, 233}

\* advance widths at the body size: an ordinary glyph, and a glyph so wide
\* that the short texts of this model reach the right margin
PipelineGlyphWidths == {6, 200}

Init ==
    /\ pc = "start"
    /\ input \in {Undefined} \cup StringsUpTo(PipelineAlphabet, MaxTextLen)
    /\ text = <<>>
    /\ again = <<>>
    /\ maxWidth = 0
    /\ font \in {Monospace(g) : g \in PipelineGlyphWidths}
    /\ lines = <<>>
    /\ paragraphs = <<>>
    /\ words = <<>>
    /\ pi = 1
    /\ wi = 1
    /\ current = <<>>
    /\ token = <<>>
    /\ filename \in {Undefined, DotTxt, ATxt, AUpperTxt, AMd}
    /\ title \in {Undefined, <<>>, <<SPACE>>, Hi, BoxTitle}
    /\ pages = 0
    /\ y = 0
    /\ li = 1
    /\ draws = <<>>
    /\ earlier = <<>>
    /\ outName = <<>>

Next ==
    \/ Start
    \/ NextParagraph
    \/ NextWord
    \/ HardBreak
    \/ AddFirstPage
    \/ DrawHeader
    \/ DrawBodyLine
    \/ Save

Spec == Init /\ [][Next]_vars

----------------------------------------------------------------------------
(* Properties of the wrapper, under SpecWrap *)

\* the words of every non-empty paragraph of s, in order
AllWords(s) ==
    LET ps == Paragraphs(s)
    IN  Flatten([k \in 1..Len(ps) |->
                    IF ps[k] = <<>> THEN <<>> ELSE Words(ps[k])])

\* how many elements of sequence q equal x
Count(q, x) == Cardinality({k \in 1..Len(q) : q[k] = x})

\* C1: every line of more than one character measures at most maxWidth,
\* the prefix lines cut from an oversized token included.
C1_WidthInvariant ==
    \A k \in 1..Len(lines) :
        Len(lines[k]) > 1 => widthOfTextAtSize(font, lines[k]) <= maxWidth

\* C3: wrapText returns at least one line for every non-empty text, a text of
\* nothing but spaces, tabs or carriage returns included.
C3_AtLeastOneLine ==
    (pc = "wrapped" /\ text # <<>>) => Len(lines) >= 1

\* what is left of the loops of wrapText, as a number that is 0 at the
\* return: the paragraphs still to take, then the words still to take in the
\* paragraph at hand, then the characters of the token being broken
RankWord == MaxTextLen + 3
RankParagraph == (MaxTextLen + 3) * RankWord
ParagraphsLeft == Len(paragraphs) - pi + 1
WordsLeft == Len(words) - wi + 1
Rank ==
    CASE pc = "wrapped" -> 0
      [] pc = "para" -> 1 + ParagraphsLeft * RankParagraph
      [] pc = "word" -> 2 + (ParagraphsLeft - 1) * RankParagraph
                          + WordsLeft * RankWord
      [] pc = "hard" -> 3 + (ParagraphsLeft - 1) * RankParagraph
                          + (WordsLeft - 1) * RankWord + Len(token)

\* C6: wrapText terminates for every text, positive maxWidth and font: until
\* it returns a statement can always run, and every step of the paragraph
\* loop, the word loop and the hard-break loop lowers a rank that never
\* goes below 0, so each loop ends after finitely many steps.
C6_Terminates ==
    /\ [](Rank >= 0)
    /\ [](pc # "wrapped" => ENABLED NextWrap)
    /\ [][Rank' < Rank]_vars

\* a run that went through the hard-break loop and returned: one token that
\* came out as several lines
C6_Witness ==
    /\ pc = "wrapped"
    /\ Len(AllWords(text)) = 1
    /\ Len(lines) >= 2

\* C10: a token that is one character wider than maxWidth comes out as a
\* line of its own, once per occurrence, and a text that is nothing but such
\* a character gives exactly that one line.
C10_SingleWideCharacter ==
    pc = "wrapped" =>
        \A c \in {LetterI, LetterW} :
            font[c] > maxWidth =>
                /\ Count(lines, <<c>>) >= Count(AllWords(text), <<c>>)
                /\ text = <<c>> => lines = <<<<c>>>>

\* two one-character tokens, each wider than maxWidth, each on its own line
C10_Witness ==
    /\ pc = "wrapped"
    /\ text = <<LetterW, SPACE, LetterW>>
    /\ font[LetterW] > maxWidth
    /\ lines = <<<<LetterW>>, <<LetterW>>>>

----------------------------------------------------------------------------
(* Properties of the sanitizer, under SpecSanitize *)

\* C2: every character of the sanitizer's result is '\n', '\r', '\t' or in
\* 0x20..0x7E.
C2_RangeInvariant ==
    pc \in {"sanitized", "resanitized"} =>
        \A k \in 1..Len(text) : text[k] \in {LF, CR, TAB} \cup (32..126)

\* an input outside the range, brought into it
C2_Witness ==
    /\ pc = "sanitized"
    /\ \E k \in 1..Len(input) : input[k] \notin {LF, CR, TAB} \cup (32..126)
    /\ input # Undefined
    /\ Len(text) >= 2

\* C7: the sanitizer is idempotent: applied to its own result it returns
\* that result.
C7_Idempotent == pc = "resanitized" => again = text

\* an input the first application changed, left alone by the second
C7_Witness ==
    /\ pc = "resanitized"
    /\ input = <<9744, 233>>
    /\ text = <<91, 32, 93, 32>>
    /\ again = text

\* the reference map of one code point
RefMap(cp) ==
    CASE cp = 9744 -> <<91, 32, 93>>
      [] cp \in {9745, 9989} -> <<91, 120, 93>>
      [] cp \in {10003, 10004} -> <<120>>
      [] cp \in {8226, 9679, 9632} -> <<42>>
      [] cp \in (8208..8212) \cup {8722} -> <<45>>
      [] cp \in {8216, 8217, 8219, 8242} -> <<39>>
      [] cp \in {8220, 8221, 8223, 8243} -> <<34>>
      [] cp = 160 -> <<32>>
      [] cp \in {9, 10, 13} -> <<cp>>
      [] cp >= 32 /\ cp <= 126 -> <<cp>>
      [] OTHER -> <<32>>

\* the code points of a string of code units
RECURSIVE RefCodePoints(_)
RefCodePoints(s) ==
    IF s = <<>> THEN <<>>
    ELSE IF /\ Len(s) >= 2
            /\ s[1] \in 55296..56319
            /\ s[2] \in 56320..57343
         THEN <<65536 + (s[1] - 55296) * 1024 + (s[2] - 56320)>>
                  \o RefCodePoints(SubSeq(s, 3, Len(s)))
         ELSE <<s[1]>> \o RefCodePoints(Tail(s))

RefSanitize(s) ==
    IF s = Undefined THEN <<>>
    ELSE LET cps == RefCodePoints(s)
         IN  Flatten([k \in 1..Len(cps) |-> RefMap(cps[k])])

\* "Price: $5-$10 x"
PriceExpected ==
    <<80, 114, 105, 99, 101, 58, 32, 36, 53, 45, 36, 49, 48, 32, 120>>

\* C9: the sanitizer's result is the reference map applied code point by
\* code point, null or undefined giving the empty string, and the price
\* example giving "Price: $5-$10 x".
C9_MatchesReference ==
    pc = "sanitized" =>
        /\ text = RefSanitize(input)
        /\ input = PriceExample => text = PriceExpected

C9_Witness ==
    /\ pc = "sanitized"
    /\ input = PriceExample
    /\ text = PriceExpected

----------------------------------------------------------------------------
(* Properties of the paginator, under SpecPaginate *)

CeilDiv(a, b) == (a + b - 1) \div b

NoTitleBlock == HeaderTitle(title, filename) = <<>>

\* the page of body line k when every full page holds per lines
PageOfLine(k, per) == ((k - 1) \div per) + 1

\* C4 as stated: without a title block a full page holds 42 body lines, so
\* n >= 1 lines take ceil(n / 42) pages, line k on page ceil(k / 42).
C4_FortyTwoPerPage ==
    (pc = "done" /\ NoTitleBlock /\ Len(lines) >= 1) =>
        /\ pages = CeilDiv(Len(lines), 42)
        /\ \A k \in 1..Len(BodyDraws) : BodyDraws[k].page = PageOfLine(k, 42)

\* C4 amended: without a title block a full page holds 43 body lines (drawn
\* at y = 728, 712, ..., 56), so n >= 1 lines take ceil(n / 43) pages, line
\* k on page ceil(k / 43), and no lines take one page; 200 lines take 5
\* pages, with breaks after lines 43, 86, 129 and 172.
C4_FortyThreePerPage ==
    (pc = "done" /\ NoTitleBlock) =>
        /\ Len(BodyDraws) = Len(lines)
        /\ pages = Max(1, CeilDiv(Len(lines), 43))
        /\ \A k \in 1..Len(BodyDraws) : BodyDraws[k].page = PageOfLine(k, 43)
        /\ Len(lines) = 200 =>
               /\ pages = 5
               /\ \A k \in 1..199 :
                      (BodyDraws[k + 1].page # BodyDraws[k].page)
                          <=> k \in {43, 86, 129, 172}

C4_Witness ==
    /\ pc = "done"
    /\ NoTitleBlock
    /\ Len(lines) = 200
    /\ pages = 5
    /\ BodyDraws[43].page = 1
    /\ BodyDraws[44].page = 2

\* C5: no body line is drawn at or below the bottom margin; a pending line
\* that finds the cursor there gets a new page and is drawn at its top; and
\* after the first page nothing else adds a page.
C5_PageBreakOnlyByCursor ==
    /\ [](\A k \in 1..Len(draws) :
              draws[k].kind = "body" => draws[k].y > marginBottom)
    /\ [][(pc = "body" /\ li <= Len(lines) /\ y <= marginBottom) =>
              /\ pages' = pages + 1
              /\ draws' = Append(draws, Draw("body", pages', marginX,
                                             pageHeight - marginTop, marginX,
                                             fontSize, lines[li]))]_vars
    /\ [][(pages >= 1 /\ pages' # pages) =>
              /\ pc = "body"
              /\ li <= Len(lines)
              /\ y <= marginBottom
              /\ pages' = pages + 1]_vars

\* a second page, added for a line that found the cursor below the margin
C5_Witness ==
    /\ pages = 2
    /\ draws # <<>>
    /\ draws[Len(draws)].kind = "body"
    /\ draws[Len(draws)].page = 2
    /\ draws[Len(draws)].y = pageHeight - marginTop

----------------------------------------------------------------------------
(* Properties of downloadTextAsPdf, under Spec *)

\* C8 as stated: empty body text and no title supplied give one page and no
\* draw-text call for the body.
C8_NoBodyDraw ==
    (pc = "done" /\ input = <<>> /\ title = Undefined) =>
        /\ pages = 1
        /\ BodyDraws = <<>>

\* C8 amended: empty body text and no title supplied give one page, on which
\* exactly one body draw-text call is issued, for the one empty line that
\* wrapText returns for the empty text; nothing visible is drawn by it.
C8_OneEmptyBodyDraw ==
    (pc = "done" /\ input = <<>> /\ title = Undefined) =>
        /\ pages = 1
        /\ lines = <<<<>>>>
        /\ Len(BodyDraws) = 1
        /\ BodyDraws[1].str = <<>>
        /\ BodyDraws[1].page = 1

C8_Witness ==
    /\ pc = "done"
    /\ input = <<>>
    /\ title = Undefined
    /\ pages = 1
    /\ Len(BodyDraws) = 1

\* two invocations of downloadTextAsPdf on the same arguments
NextTwice == Next \/ CallAgain

SpecTwice == Init /\ [][NextTwice]_vars

----------------------------------------------------------------------------
(* C11: the first page *)

\* "HI"
UpperHi == <<72, 73>>

\* C11: the first page exists before the header or any line is handled, so
\* there is at least one page from then on and no draw without a page; with
\* no lines the finished document is one page that holds the title and the
\* separator when there is a title, nothing otherwise, and no body draw
C11_FirstPageAlways ==
    /\ pc \in {"header", "body", "done"} => pages >= 1
    /\ pages = 0 => draws = <<>>
    /\ \A k \in 1..Len(draws) : draws[k].page >= 1
    /\ (pc = "done" /\ lines = <<>>) =>
           /\ pages = 1
           /\ BodyDraws = <<>>
           /\ IF HeaderTitle(title, filename) = <<>>
              THEN draws = <<>>
              ELSE /\ Len(draws) = 2
                   /\ draws[1].kind = "title" /\ draws[1].page = 1
                   /\ draws[2].kind = "rule" /\ draws[2].page = 1
           /\ title = Hi => draws[1].str = UpperHi

\* no lines and the title "Hi": one page with "HI" and the separator
C11_Witness ==
    /\ pc = "done"
    /\ lines = <<>>
    /\ title = Hi
    /\ pages = 1
    /\ Len(draws) = 2
    /\ draws[1].str = UpperHi

----------------------------------------------------------------------------
(* C12: the page count as a function of the number of lines *)

\* C12: with the title and the configuration fixed, the finished document
\* of n lines has the page count of the layout of n lines, and that count
\* is at least the count for the first n - 1 lines and at most one more
C12_PagesMonotone ==
    pc = "done" =>
        LET n == Len(lines)
        IN  /\ pages = LayoutAfter(n, title, filename).pages
            /\ n >= 1 =>
                   LET fewer == LayoutAfter(n - 1, title, filename).pages
                   IN  fewer <= pages /\ pages <= fewer + 1

\* the 44th line without a header adds the second page; the 43rd added none
C12_Witness ==
    /\ pc = "done"
    /\ Len(lines) = 44
    /\ HeaderTitle(title, filename) = <<>>
    /\ pages = 2
    /\ LayoutAfter(43, title, filename).pages = 1
    /\ LayoutAfter(42, title, filename).pages = 1

----------------------------------------------------------------------------
(* C13: the header block of a document with a title *)

TitleDraws == SelectSeq(draws, LAMBDA d : d.kind = "title")

RuleDraws == SelectSeq(draws, LAMBDA d : d.kind = "rule")

TitlePresent == title # Undefined /\ Trim(title) # <<>>

\* C13: with a title that is not empty after trimming, once the header
\* block is done there is exactly one title draw, upper-cased, on page 1 at
\* x = 54, y = 728, exactly one separator, on page 1 at y = 702 from x = 54
\* to x = 558, the first body line is at y = 684 on page 1, and every draw
\* on a later page is a body draw
C13_TitleBlock ==
    (TitlePresent /\ pc \in {"body", "done"}) =>
        /\ Len(TitleDraws) = 1
        /\ Len(RuleDraws) = 1
        /\ draws[1].kind = "title"
        /\ draws[1].page = 1 /\ draws[1].x = 54 /\ draws[1].y = 728
        /\ title = Hi => draws[1].str = UpperHi
        /\ draws[2].kind = "rule"
        /\ draws[2].page = 1 /\ draws[2].y = 702
        /\ draws[2].x = 54 /\ draws[2].x2 = 558
        /\ BodyDraws # <<>> =>
               /\ BodyDraws[1].page = 1
               /\ BodyDraws[1].x = 54
               /\ BodyDraws[1].y = 684
        /\ \A k \in 1..Len(draws) : draws[k].page > 1 => draws[k].kind = "body"

\* a titled document that runs to a third page
C13_Witness ==
    /\ pc = "done"
    /\ title = Hi
    /\ pages = 3
    /\ Len(TitleDraws) = 1
    /\ draws[1].str = UpperHi
    /\ BodyDraws[1].y = 684

----------------------------------------------------------------------------
(* C14: the header block of a document without a title *)

TitleAbsent == title = Undefined \/ title = <<>>

\* the header text for each filename of Init when no title is given:
\* "TEMPLATE", "", "A", "A", "A.MD"
FallbackHeader ==
    CASE filename = Undefined -> <<84, 69, 77, 80, 76, 65, 84, 69>>
      [] filename = DotTxt -> <<>>
      [] filename = ATxt -> <<65>>
      [] filename = AUpperTxt -> <<65>>
      [] filename = AMd -> <<65, 46, 77, 68>>

\* C14 as stated: with no title (undefined or empty) there is no title
\* draw and no separator, and the first body line is at y = 728
C14_NoTitleNoHeader ==
    (TitleAbsent /\ pc \in {"body", "done"}) =>
        /\ TitleDraws = <<>>
        /\ RuleDraws = <<>>
        /\ BodyDraws # <<>> => BodyDraws[1].y = 728

\* C14 amended: with no title the header shows the filename without its
\* .txt ending ('template' without a filename), upper-cased, followed by
\* the separator, and the first body line is at y = 684; only when that
\* name is empty is there no header and the first body line at y = 728
C14_HeaderFallsBackToFilename ==
    (TitleAbsent /\ pc \in {"body", "done"}) =>
        IF FallbackHeader = <<>>
        THEN /\ TitleDraws = <<>>
             /\ RuleDraws = <<>>
             /\ BodyDraws # <<>> => BodyDraws[1].y = 728
        ELSE /\ Len(TitleDraws) = 1
             /\ Len(RuleDraws) = 1
             /\ TitleDraws[1].str = FallbackHeader
             /\ TitleDraws[1].y = 728
             /\ RuleDraws[1].y = 702
             /\ BodyDraws # <<>> => BodyDraws[1].y = 684

\* no title and the filename "a.txt": the header reads "A"
C14_Witness ==
    /\ pc = "done"
    /\ title = Undefined
    /\ filename = ATxt
    /\ Len(TitleDraws) = 1
    /\ TitleDraws[1].str = <<65>>
    /\ BodyDraws # <<>>
    /\ BodyDraws[1].y = 684

----------------------------------------------------------------------------
(* C15: the order of pages and draws *)

\* the draws so far go from page to page in order, none beyond the last
\* page, and the body draws are the lines handled so far, in order
DrawsInPageOrder ==
    /\ \A k \in 1..Len(draws) : draws[k].page \in 1..pages
    /\ \A k \in 1..(Len(draws) - 1) : draws[k].page <= draws[k + 1].page
    /\ pc \in {"body", "done"} =>
           /\ Len(BodyDraws) = li - 1
           /\ \A k \in 1..Len(BodyDraws) : BodyDraws[k].str = lines[k]
    /\ pc = "done" => Len(BodyDraws) = Len(lines)

\* a step adds pages one at a time and only appends draws, each of them on
\* the page that is the last one after the step
DrawsOnLastPage ==
    /\ pages' \in {pages, pages + 1}
    /\ Len(draws') >= Len(draws)
    /\ SubSeq(draws', 1, Len(draws)) = draws
    /\ \A k \in (Len(draws) + 1)..Len(draws') : draws'[k].page = pages'

\* C15: pages are added one after the other and every draw goes to the
\* page added last, so no earlier page is drawn on again, line i is never
\* on a later page than line j for i < j, and each line is drawn once
C15_PagesInOrder == [] DrawsInPageOrder /\ [][DrawsOnLastPage]_vars

\* a finished document of three pages with a draw on each
C15_Witness ==
    /\ pc = "done"
    /\ pages = 3
    /\ Len(BodyDraws) = Len(lines)
    /\ \A p \in 1..3 : \E k \in 1..Len(draws) : draws[k].page = p

----------------------------------------------------------------------------
(* C16: the name of the download *)

\* the position of the last '.' of s, 0 when there is none
RECURSIVE LastDot(_)
LastDot(s) ==
    IF s = <<>> THEN 0
    ELSE IF s[Len(s)] = 46 THEN Len(s)
    ELSE LastDot(SubSeq(s, 1, Len(s) - 1))

\* s without its extension, whatever it is
WithoutExtension(s) ==
    IF LastDot(s) = 0 THEN s ELSE SubSeq(s, 1, LastDot(s) - 1)

\* the name of the download for each filename of Init: "template.pdf",
\* ".pdf", "a.pdf", "a.pdf", "a.md.pdf"
ExpectedOutName ==
    CASE filename = Undefined ->
             <<116, 101, 109, 112, 108, 97, 116, 101, 46, 112, 100, 102>>
      [] filename = DotTxt -> <<46, 112, 100, 102>>
      [] filename = ATxt -> <<97, 46, 112, 100, 102>>
      [] filename = AUpperTxt -> <<97, 46, 112, 100, 102>>
      [] filename = AMd -> <<97, 46, 109, 100, 46, 112, 100, 102>>

\* C16 as stated: the name of the download is the filename with its
\* extension, whatever it is, replaced by '.pdf'
C16_AnyExtensionReplaced ==
    (pc # "start" /\ filename # Undefined) =>
        outName = WithoutExtension(filename) \o <<46, 112, 100, 102>>

\* C16 amended: the name of the download is the filename with a trailing
\* '.txt', in any letter case, removed and '.pdf' appended; any other
\* extension stays in the name, and without a filename it is 'template.pdf'
C16_OnlyDotTxtReplaced == pc # "start" => outName = ExpectedOutName

\* the filename "a.md" is downloaded as "a.md.pdf"
C16_Witness ==
    /\ pc = "done"
    /\ filename = AMd
    /\ outName = <<97, 46, 109, 100, 46, 112, 100, 102>>

----------------------------------------------------------------------------
(* C17: determinism *)

\* C17: a second invocation on the same text, title, filename and font,
\* started where the first one ended, hands over the same lines, the same
\* pages, the same draws at the same positions and the same name: nothing
\* the first invocation left behind reaches the second
C17_Deterministic ==
    (pc = "done" /\ earlier # <<>>) => Produced = earlier[1]

\* a second invocation that ended, on a text of two paragraphs with a header
C17_Witness ==
    /\ pc = "done"
    /\ earlier # <<>>
    /\ Len(lines) = 2
    /\ Len(draws) = 4
    /\ Produced = earlier[1]

----------------------------------------------------------------------------
(* C18: one line at least for every paragraph *)

\* C18: every paragraph of the text, those of whitespace only included,
\* gives at least one line: after the k-th paragraph there are at least k
\* lines, and the result has at least as many lines as there are paragraphs
C18_LinePerParagraph ==
    /\ pc = "para" => Len(lines) >= pi - 1
    /\ pc = "wrapped" => Len(lines) >= Len(paragraphs)

----------------------------------------------------------------------------
(* C19: the shape of a line *)

\* s is words without whitespace joined by single spaces
SingleSpaced(s) ==
    /\ s[1] # SPACE
    /\ s[Len(s)] # SPACE
    /\ \A k \in 1..(Len(s) - 1) : ~(s[k] = SPACE /\ s[k + 1] = SPACE)
    /\ \A k \in 1..Len(s) : s[k] \notin {TAB, CR}

\* C19: every non-empty line of wrapText neither begins nor ends with a
\* space, has no two spaces in a row, and has no tab or carriage return
C19_SingleSpacedLines ==
    \A k \in 1..Len(lines) : lines[k] # <<>> => SingleSpaced(lines[k])

----------------------------------------------------------------------------
(* C20: what reaches drawText *)

\* C20: every string handed to drawText, the header as well as each body
\* line, is made of characters 0x20..0x7E only
C20_DrawnTextPrintableAscii ==
    \A k \in 1..Len(draws) :
        draws[k].kind \in {"title", "body"} =>
            \A j \in 1..Len(draws[k].str) :
                draws[k].str[j] >= 32 /\ draws[k].str[j] <= 126

----------------------------------------------------------------------------
(* C21: greedy lines *)

\* the text is one paragraph none of whose words needs a hard break
OneParagraphOfFittingWords ==
    /\ Len(paragraphs) = 1
    /\ \A k \in 1..Len(Words(paragraphs[1])) :
           widthOfTextAtSize(font, Words(paragraphs[1])[k]) <= maxWidth

\* in the result, no line has room for a space and the first word of the
\* line after it
NoRoomForNextWord ==
    (pc = "wrapped" /\ OneParagraphOfFittingWords) =>
        \A k \in 1..(Len(lines) - 1) :
            widthOfTextAtSize(font, lines[k] \o <<SPACE>> \o Words(lines[k + 1])[1])
                > maxWidth

\* a step at a word either leaves the lines alone, which it does whenever
\* the line at hand, a space and the word fit, or commits the line at hand
\* because with a space and the whole word it measures more than maxWidth
CommitsOnlyWhenFull ==
    (pc = "word" /\ wi <= Len(words)) =>
        LET joined == IF current = <<>> THEN words[wi]
                      ELSE current \o <<SPACE>> \o words[wi]
        IN  /\ widthOfTextAtSize(font, joined) <= maxWidth => lines' = lines
            /\ lines' # lines =>
                   /\ lines' = Append(lines, current)
                   /\ token' = words[wi]
                   /\ widthOfTextAtSize(font, joined) > maxWidth

\* C21: wrapping is greedy at word boundaries: a line is committed before a
\* new word only when the line, one space and the whole word measure more
\* than maxWidth, never while the word would still fit
C21_GreedyMaximal == [] NoRoomForNextWord /\ [][CommitsOnlyWhenFull]_vars

\* two words on two lines: together with a space they measure one more
\* than maxWidth
C21_Witness ==
    /\ pc = "wrapped"
    /\ OneParagraphOfFittingWords
    /\ Len(lines) = 2
    /\ Len(words) = 2
    /\ widthOfTextAtSize(font, lines[1] \o <<SPACE>> \o lines[2]) = maxWidth + 1

----------------------------------------------------------------------------
(* C22: nothing lost, doubled or moved *)

\* s with its whitespace deleted
WithoutWhitespace(s) == SelectSeq(s, LAMBDA c : c \notin JsWhitespace)

\* C22: the lines of the result, put one after the other and with their
\* whitespace deleted, are the text with its whitespace deleted, hard-broken
\* tokens included
C22_TextPreserved ==
    pc = "wrapped" =>
        WithoutWhitespace(Flatten(lines)) = WithoutWhitespace(text)

\* a token of three characters broken over three lines
C22_Witness ==
    /\ pc = "wrapped"
    /\ text = <<LetterW, LetterW, LetterI>>
    /\ Len(lines) = 3
    /\ WithoutWhitespace(Flatten(lines)) = WithoutWhitespace(text)

----------------------------------------------------------------------------
(* C23: the cut of a hard break *)

\* a turn of the hard-break loop pushes a prefix of 1 to length - 1
\* characters of the token and keeps the rest, which is not empty and shorter
HardBreakCutsInside ==
    (pc = "hard" /\ lines' # lines) =>
        LET prefix == lines'[Len(lines')]
        IN  /\ lines' = Append(lines, prefix)
            /\ Len(prefix) >= 1
            /\ Len(prefix) <= Len(token) - 1
            /\ prefix \o token' = token
            /\ token' # <<>>
            /\ Len(token') < Len(token)

\* C23: in every turn of the hard-break loop 1 <= cut <= token.length - 1,
\* so the prefix pushed and the token kept are not empty and the token gets
\* shorter, whatever the widths are, an estimate of 0 characters or of more
\* than the length of the token included
C23_CutWithinToken ==
    /\ [][HardBreakCutsInside]_vars
    /\ [] ((pc = "hard" /\ HardBreakContinues(font, token, maxWidth)) =>
               HardBreakCut(font, token, maxWidth) \in 1..(Len(token) - 1))

\* a token of three characters whose estimate was 5: two were cut off
C23_Witness ==
    /\ pc = "hard"
    /\ words[wi] = <<LetterW, LetterW, LetterI>>
    /\ HardBreakEstimate(maxWidth, widthOfTextAtSize(font, words[wi]), 3) = 5
    /\ lines = <<(<<LetterW, LetterW>>)>>
    /\ token = <<LetterI>>

----------------------------------------------------------------------------
(* wrapText under a font in which every character has the same width *)

\* a token of n characters
TokenOf(n) == [k \in 1..n |-> LetterI]

\* "Supercalifragilisticexpialidocious"
Supercalifragilistic ==
    <<83, 117, 112, 101, 114, 99, 97, 108, 105, 102, 114, 97, 103, 105, 108,
      105, 115, 116, 105, 99, 101, 120, 112, 105, 97, 108, 105, 100, 111, 99,
      105, 111, 117, 115>>

\* "The quick brown fox"
QuickBrownFox ==
    <<84, 104, 101, 32, 113, 117, 105, 99, 107, 32, 98, 114, 111, 119, 110,
      32, 102, 111, 120>>

\* a maxWidth of 60 and characters of 6 points
Sixty == <<60, 6>>

UniformMaxWidths == (1..MaxWidth) \cup {Sixty[1]}

UniformGlyphWidths == (1..MaxGlyphWidth) \cup {Sixty[2]}

InitWrapUniform ==
    /\ pc = "para"
    /\ input = <<>>
    /\ again = <<>>
    /\ text \in {TokenOf(n) : n \in 1..MaxTokenLen}
                 \cup {Supercalifragilistic, QuickBrownFox}
    /\ maxWidth \in UniformMaxWidths
    /\ font \in {Monospace(g) : g \in UniformGlyphWidths}
    /\ lines = <<>>
    /\ paragraphs = Paragraphs(text)
    /\ words = <<>>
    /\ pi = 1
    /\ wi = 1
    /\ current = <<>>
    /\ token = <<>>
    /\ filename = <<>>
    /\ title = <<>>
    /\ pages = 0
    /\ y = 0
    /\ li = 1
    /\ draws = <<>>
    /\ earlier = <<>>
    /\ outName = <<>>

SpecWrapUniform == InitWrapUniform /\ [][NextWrap]_vars

----------------------------------------------------------------------------
(* C24: hard breaks under a uniform font *)

\* the width c of every character, and k = floor(maxWidth / c)
UniformWidth == font[LetterI]

CharsPerLine == maxWidth \div UniformWidth

\* the text is one token, longer than a line holds, and a line holds one
\* character at least
OneLongToken ==
    /\ Len(paragraphs) = 1
    /\ Words(text) = <<text>>
    /\ CharsPerLine >= 1
    /\ Len(text) > CharsPerLine

LineLengths == [j \in 1..Len(lines) |-> Len(lines[j])]

\* 60 points of width, 6 points a character
SixtyBySix == maxWidth = Sixty[1] /\ UniformWidth = Sixty[2]

\* the two examples: lengths 10, 10, 10, 4, and "The quick", "brown fox"
ExamplesAsStated ==
    /\ (SixtyBySix /\ text = Supercalifragilistic) =>
           LineLengths = <<10, 10, 10, 4>>
    /\ (SixtyBySix /\ text = QuickBrownFox) =>
           lines = <<(<<84, 104, 101, 32, 113, 117, 105, 99, 107>>),
                     (<<98, 114, 111, 119, 110, 32, 102, 111, 120>>)>>

\* C24 as stated: under a uniform font with k = floor(maxWidth / c) >= 1 a
\* one-token paragraph of L > k characters comes out as exactly ceil(L / k)
\* lines, each of k characters but the last, which has the 1..k that
\* remain; and the two examples
C24_ExactlyCharsPerLine ==
    pc = "wrapped" =>
        /\ OneLongToken =>
               /\ Len(lines) = CeilDiv(Len(text), CharsPerLine)
               /\ \A j \in 1..(Len(lines) - 1) : Len(lines[j]) = CharsPerLine
               /\ Len(lines[Len(lines)]) \in 1..CharsPerLine
        /\ ExamplesAsStated

\* C24 amended: each line but the last has k characters, or k - 1 (1 at
\* least) where the rounded product (maxWidth / width) * length falls just
\* below k, which needs c to divide maxWidth; the last line has the 1..k
\* that remain, so there are ceil(L / k) lines at least; the two examples
\* are as stated, and 77 characters of 6 points in 60 come out as lines of
\* 9, 10, 10, 10, 10, 10, 10 and 8
C24_CharsPerLineUpToRounding ==
    pc = "wrapped" =>
        /\ OneLongToken =>
               /\ Len(lines) >= CeilDiv(Len(text), CharsPerLine)
               /\ \A j \in 1..(Len(lines) - 1) :
                      \/ Len(lines[j]) = CharsPerLine
                      \/ /\ Len(lines[j]) = Max(1, CharsPerLine - 1)
                         /\ maxWidth % UniformWidth = 0
               /\ Len(lines[Len(lines)]) \in 1..CharsPerLine
        /\ ExamplesAsStated
        /\ (SixtyBySix /\ text = TokenOf(77)) =>
               LineLengths = <<9, 10, 10, 10, 10, 10, 10, 8>>

\* 77 characters of 6 points in a width of 60: the first line has 9
C24_Witness ==
    /\ pc = "wrapped"
    /\ SixtyBySix
    /\ text = TokenOf(77)
    /\ LineLengths = <<9, 10, 10, 10, 10, 10, 10, 8>>

----------------------------------------------------------------------------
(* C25: a maxWidth that is zero or negative *)

\* maxWidth is zero or negative and every character has a positive width
NothingFits ==
    /\ maxWidth <= 0
    /\ \A c \in DOMAIN font : font[c] > 0

\* every character of the text that is not whitespace is a line of its own
\* and every empty paragraph an empty line, in the order of the text
OneCharacterPerLine ==
    /\ \A k \in 1..Len(lines) : Len(lines[k]) <= 1
    /\ Flatten(lines) = WithoutWhitespace(text)
    /\ Len(lines) = Len(WithoutWhitespace(text)) + Count(paragraphs, <<>>)

\* a turn of the hard-break loop takes exactly one character off the token
TakesOneCharacter ==
    (NothingFits /\ pc = "hard" /\ lines' # lines) =>
        /\ lines' = Append(lines, <<token[1]>>)
        /\ token' = Tail(token)

\* C25: with a maxWidth that is zero or negative and characters of positive
\* width wrapText returns: a statement can run until it does and every step
\* lowers the rank; each turn of the hard-break loop takes one character
\* off the token, so a token of L characters comes out as L lines of one
\* character
C25_TerminatesWhenNothingFits ==
    /\ [](NothingFits => Rank >= 0)
    /\ []((NothingFits /\ pc # "wrapped") => ENABLED NextWrap)
    /\ [][NothingFits => Rank' < Rank]_vars
    /\ [][TakesOneCharacter]_vars
    /\ []((NothingFits /\ pc = "wrapped") => OneCharacterPerLine)

\* maxWidth 0: a token of three characters came out as three lines
C25_Witness ==
    /\ pc = "wrapped"
    /\ NothingFits
    /\ maxWidth = 0
    /\ text = <<LetterW, LetterW, LetterI>>
    /\ lines = <<(<<LetterW>>), (<<LetterW>>), (<<LetterI>>)>>


\* the paragraphs the loop of line 46 is done with
ParagraphsDone == SubSeq(paragraphs, 1, Min(pi - 1, Len(paragraphs)))

\* a step that pushes an empty Line
PushesEmptyLine ==
    /\ Len(lines') > Len(lines)
    /\ \E k \in (Len(lines) + 1)..Len(lines') : lines'[k] = <<>>

\* the step of lines 47..50 for an empty paragraph: one empty Line, no other
AtEmptyParagraph ==
    /\ pc = "para"
    /\ pi <= Len(paragraphs)
    /\ paragraphs[pi] = <<>>

\* C26: wrapText emits one empty Line for each empty paragraph and no other
\* empty Line: all along, the empty Lines are as many as the empty
\* paragraphs gone through (so at the return as many as the empty
\* paragraphs of the text), the step for an empty paragraph pushes exactly
\* one empty Line, and no step for a non-empty paragraph, a word or a
\* hard-break pushes an empty Line
C26_EmptyLinePerEmptyParagraph ==
    /\ [](pc \in {"para", "word", "hard", "wrapped"} =>
              Count(lines, <<>>) = Count(ParagraphsDone, <<>>))
    /\ [](pc = "wrapped" =>
              Count(lines, <<>>) = Count(Paragraphs(text), <<>>))
    /\ [][AtEmptyParagraph => lines' = Append(lines, <<>>)]_vars
    /\ [][PushesEmptyLine => AtEmptyParagraph]_vars

\* 'W' and two line feeds: three paragraphs, the last two empty (the last
\* one made by the trailing line feed), and two empty Lines
C26_Witness ==
    /\ pc = "wrapped"
    /\ text = <<LetterW, LF, LF>>
    /\ lines = <<(<<LetterW>>), <<>>, <<>>>>


----------------------------------------------------------------------------
(* C27: pages are created for the line that is about to be drawn *)

\* the page has a body Line on it
HasBodyLine(p) == \E k \in 1..Len(draws) :
                      draws[k].kind = "body" /\ draws[k].page = p

\* between two turns of the loop the paginator is writing a page when the
\* page added last is the first one or holds a body Line, and has a full
\* page behind it and an empty one at hand otherwise
WritingPage == pages = 1 \/ (pages > 1 /\ HasBodyLine(pages))

\* a step that adds a page draws a body Line on it, at its top
PageAddedForItsLine ==
    (pages >= 1 /\ pages' # pages) =>
        /\ pages' = pages + 1
        /\ Len(draws') = Len(draws) + 1
        /\ draws'[Len(draws')].kind = "body"
        /\ draws'[Len(draws')].page = pages'
        /\ draws'[Len(draws')].y = pageHeight - marginTop
        /\ draws'[Len(draws')].str = lines[li]

\* C27: a page is added only in the turn of the loop that draws a Line on
\* it, so every page after the first holds a body Line, whenever the loop
\* is between two turns and when it is over: the layout ends writing a
\* page, the last page being the first one or holding the last Line, even
\* when the last Line has left the cursor at or below the bottom margin
C27_PagesOnlyForLines ==
    /\ [][PageAddedForItsLine]_vars
    /\ [](pc \in {"body", "done"} =>
              /\ WritingPage
              /\ \A p \in 2..pages : HasBodyLine(p))
    /\ [](pc = "done" =>
              /\ Len(lines) = 0 => (pages = 1 /\ BodyDraws = <<>>)
              /\ Len(lines) > 0 =>
                     /\ BodyDraws[Len(BodyDraws)].page = pages
                     /\ BodyDraws[Len(BodyDraws)].str = lines[Len(lines)])

\* 43 lines without a title fill the first page: the cursor ends below the
\* bottom margin and no second page is added
C27_Witness ==
    /\ pc = "done"
    /\ Len(lines) = 43
    /\ NoTitleBlock
    /\ y <= marginBottom
    /\ pages = 1



----------------------------------------------------------------------------
(* C28: where the body Lines are drawn *)

\* body Lines that follow each other on one page are one leading apart,
\* the later one lower; a body Line that is the first of its page is on
\* page 1 when it is the first of all, and otherwise on a later page than
\* the Line before it, at the top
CursorStepsDown ==
    LET body == BodyDraws
    IN  /\ body # <<>> => body[1].page = 1
        /\ \A k \in 1..(Len(body) - 1) :
               IF body[k + 1].page = body[k].page
               THEN body[k + 1].y = body[k].y - 16
               ELSE /\ body[k + 1].page > body[k].page
                    /\ body[k + 1].y = 728

\* every draw is above the bottom margin and not above the top of the page,
\* and every body Line is at the left margin
DrawnWithinMargins ==
    \A k \in 1..Len(draws) :
        /\ draws[k].y > 54
        /\ draws[k].y <= 728
        /\ draws[k].kind = "body" => draws[k].x = 54

\* C28: on one page the body Lines are drawn at y values exactly 16 apart,
\* going down, all at x = 54; on every page after the first the first body
\* Line is at y = 728; and every y drawn at is above 54 and at most 728
C28_BodyLinePositions == CursorStepsDown /\ DrawnWithinMargins

\* under a title block: line 40 is the last of page 1, at y = 60, line 41
\* is at the top of page 2 and line 42 one leading below it
C28_Witness ==
    /\ pc = "done"
    /\ TitlePresent
    /\ Len(BodyDraws) >= 42
    /\ BodyDraws[40].page = 1 /\ BodyDraws[40].y = 60
    /\ BodyDraws[41].page = 2 /\ BodyDraws[41].y = 728
    /\ BodyDraws[42].page = 2 /\ BodyDraws[42].y = 712

----------------------------------------------------------------------------
(* C29: the sanitizer and the line structure *)

\* the line feeds, carriage returns and tabs of a string, in order
LineControls(s) == SelectSeq(s, LAMBDA u : u \in {LF, CR, TAB})

\* the pieces of s between its line feeds
LinesOf(s) == SplitLF(s, <<>>)

\* sanitizeForWinAnsi piece by piece
SanitizedLines(s) ==
    [k \in 1..Len(LinesOf(s)) |-> sanitizeForWinAnsi(LinesOf(s)[k])]

\* C29: sanitizeForWinAnsi keeps the line structure: the '\n', '\r' and
\* '\t' of the result are those of the input, in the same order, the result
\* has as many '\n'-separated pieces as the input, piece k being the
\* sanitized piece k of the input, and wrapText finds as many paragraphs in
\* the result as it would in the input
C29_LineStructureKept ==
    pc \in {"sanitized", "resanitized"} =>
        /\ LineControls(text) = LineControls(OrEmpty(input))
        /\ Len(LinesOf(text)) = Len(LinesOf(OrEmpty(input)))
        /\ LinesOf(text) = SanitizedLines(OrEmpty(input))
        /\ Len(Paragraphs(text)) = Len(Paragraphs(input))

\* a ballot box and a line feed: the line feed is the second character of
\* the input and the fourth of the result, still the end of the first piece
C29_Witness ==
    /\ pc = "sanitized"
    /\ input = <<9744, LF>>
    /\ text = <<91, 32, 93, LF>>
    /\ LinesOf(text) = <<(<<91, 32, 93>>), <<>>>>

=============================================================================
